---- MODULE Spec2Model ----
(***************************************************************************)
(* A model of the waveform engine of SDG2000X (src/src/Waveform.py) and of *)
(* the modulation encoders built on it (src/example/RFID.py).              *)
(*                                                                         *)
(* Numbers.  Python floats are modelled as exact rationals <<n, d>> in     *)
(* lowest terms with d > 0; rounding error is outside the model.  The pair *)
(* <<0, 0>> stands for an evaluation that raised an exception; every       *)
(* arithmetic operator propagates it.                                      *)
(*                                                                         *)
(* Objects.  A waveform object is modelled by its instance dictionary      *)
(* (__dict__): a record keyed by attribute name, plus the key "cls" naming *)
(* its class.  Name-mangled private attributes get one key each:           *)
(*   name    _WaveformBase__name        bdata   _WaveformBase__data        *)
(*   default _WaveformPeriodic__default val     _Delay__val                *)
(*   adata   _WaveformArb__data         swaves  _WaveformSeq__waves        *)
(*   addwaves _WaveformAdd__waves       mulwaves _WaveformMultiply__waves  *)
(*   eval    _data_at (Modulate's bound method: destructive or not)        *)
(* Public attributes (period, count, duty, carrier, bitstream, mod_index)  *)
(* keep their names.  An infinite repeat count, float('inf'), is INF.      *)
(*                                                                         *)
(* Each part of the engine has its own scenario (SpecArb, SpecSeq,         *)
(* SpecAlg, SpecUart, SpecMod, SpecGap, SpecNew): objects are constructed, *)
(* mutated where the class allows it, and evaluated with data_at at times  *)
(* from Times.  SpecSig covers the sampling and quantisation of a waveform *)
(* (src/src/SDG2000X.py, Signal) and SpecCfg the commands that             *)
(* CarrierModOneshot.config writes to the instrument.                      *)
(***************************************************************************)
EXTENDS Integers, Sequences, FiniteSets, TLC

VARIABLES
    pc,      \* position of the scenario: "built", "queried", ...
    arb,     \* the WaveformArb under test
    seq,     \* the WaveformSeq under test
    acc,     \* the waveform expression being built with + and *; in SpecNew
             \* and SpecSig the outcome of the constructor call
    aux,     \* a second waveform expression, a possible right operand; in
             \* SpecSig the upload command, in SpecCfg the instrument
    last,    \* the last + or * applied: its operands and how it was invoked;
             \* in SpecCfg the commands written so far
    args,    \* the arguments the constructor under test was called with
    mod,     \* the Modulate object under test
    qt,      \* time passed to the last data_at call
    qv       \* value the last data_at call returned (Err: it raised)

vars == <<pc, arb, seq, acc, aux, last, args, mod, qt, qv>>

----------------------------------------------------------------------------
(* Bounds of the model *)
MaxPeriod == 2      \* periods range over 1..MaxPeriod
MaxTick == 9        \* query times range over 0, 1/TimeDen, ..., MaxTick/TimeDen
TimeDen == 2

MaxChildren == 2    \* a WaveformSeq holds at most MaxChildren children
MaxOps == 2         \* at most MaxOps applications of + and * in one expression
MaxBytes == 2       \* UART data holds at most MaxBytes bytes
MaxCpb == 2         \* cycles per bit range over 1..MaxCpb
MaxStop == 2        \* stop bits range over 0..MaxStop
MaxBits == 2        \* a Modulate bitstream given directly holds 1..MaxBits bits

(* float('inf'), the repeat count of a continuous waveform *)
INF == -1

\* the value of a variable a scenario does not use
Unused == <<>>

----------------------------------------------------------------------------
(* Exact rational arithmetic standing for Python's float arithmetic *)

Err == <<0, 0>>

Abs(n) == IF n < 0 THEN -n ELSE n

RECURSIVE GCD(_, _)
GCD(a, b) == IF b = 0 THEN a ELSE GCD(b, a % b)

RNorm(n, d) ==
    IF d = 0 THEN Err
    ELSE LET g == GCD(Abs(n), Abs(d))
             s == IF d < 0 THEN -1 ELSE 1
         IN  <<(s * n) \div g, (s * d) \div g>>

R(n) == <<n, 1>>

IsErr(a) == a[2] = 0

RAdd(a, b) == IF IsErr(a) \/ IsErr(b) THEN Err
              ELSE RNorm(a[1] * b[2] + b[1] * a[2], a[2] * b[2])
RSub(a, b) == IF IsErr(a) \/ IsErr(b) THEN Err
              ELSE RNorm(a[1] * b[2] - b[1] * a[2], a[2] * b[2])
RMul(a, b) == IF IsErr(a) \/ IsErr(b) THEN Err
              ELSE RNorm(a[1] * b[1], a[2] * b[2])
\* a / b; a zero divisor raises ZeroDivisionError
RDiv(a, b) == IF IsErr(a) \/ IsErr(b) \/ b[1] = 0 THEN Err
              ELSE RNorm(a[1] * b[2], a[2] * b[1])
RLt(a, b) == a[1] * b[2] < b[1] * a[2]
RLe(a, b) == a[1] * b[2] <= b[1] * a[2]
\* int (x) for x >= 0
RFloor(a) == a[1] \div a[2]
\* a % b for a >= 0, b > 0; b = 0 raises ZeroDivisionError
RModulo(a, b) == IF IsErr(a) \/ IsErr(b) \/ b[1] = 0 THEN Err
                 ELSE RSub(a, RMul(b, R(RFloor(RDiv(a, b)))))
RMax(a, b) == IF RLt(a, b) THEN b ELSE a

Times == { RNorm(k, TimeDen) : k \in 0..MaxTick }
Periods == { R(p) : p \in 1..MaxPeriod }

----------------------------------------------------------------------------
(* Instance dictionaries *)

\* self.__dict__.update (kwargs)
Update(d, kw) ==
    [k \in (DOMAIN d) \cup (DOMAIN kw) |-> IF k \in DOMAIN kw THEN kw[k] ELSE d[k]]

\* WaveformBase.__init__ (name, data, **kwargs) run on the partly built self
BaseInit(self, name, data, kw) ==
    Update(Update(self, kw), [name |-> name, bdata |-> data])

\* WaveformPeriodic.__init__ (period, count, default, name=..., **kwargs)
PeriodicInit(self, period, count, default, name, kw) ==
    BaseInit(Update(self, [period |-> period, count |-> count, default |-> default]),
             name, R(0), kw)

NoKw == [x \in {} |-> 0]
DefaultName == <<"default">>

\* WaveformArb (period, data, count)
WaveformArb(period, data, count) ==
    PeriodicInit([cls |-> "WaveformArb", adata |-> data],
                 period, count, "zero", DefaultName, NoKw)

\* Delay (period, val, count): name=''
Delay(period, val, count) ==
    PeriodicInit([cls |-> "Delay", val |-> val],
                 period, count, "zero", <<>>, NoKw)

\* Square (period, duty, count), for a duty the bounds check accepts
Square(period, duty, count) ==
    PeriodicInit([cls |-> "Square", duty |-> duty],
                 period, count, "zero", DefaultName, NoKw)

\* An operand of + and * is a waveform or a bare number [num |-> r]
IsWave(x) == "cls" \in DOMAIN x
Num(r) == [num |-> r]

\* w if isinstance (w, WaveformBase) else WaveformBase (data=float(w))
Lift(x) ==
    IF IsWave(x) THEN x
    ELSE BaseInit([cls |-> "WaveformBase"], DefaultName, x.num, NoKw)

\* WaveformBase.get_period
GetPeriod(w) == IF "period" \in DOMAIN w THEN w.period ELSE R(0)

\* np.max (list (map (lambda w: w.get_period(), waves)))
RECURSIVE MaxGetPeriod(_, _)
MaxGetPeriod(ws, i) ==
    IF i = Len(ws) THEN GetPeriod(ws[i])
    ELSE RMax(GetPeriod(ws[i]), MaxGetPeriod(ws, i + 1))

LiftAll(waves) == [i \in 1..Len(waves) |-> Lift(waves[i])]

\* WaveformAdd (waves, name=name, **kw): the components and the period are set
\* first, then WaveformBase.__init__ updates the dictionary with kw
WaveformAdd(waves, name, kw) ==
    BaseInit([cls |-> "WaveformAdd", addwaves |-> LiftAll(waves),
              period |-> MaxGetPeriod(LiftAll(waves), 1), count |-> 1],
             name, R(0), kw)

\* WaveformMultiply (waves, name=name, **kw)
WaveformMultiply(waves, name, kw) ==
    BaseInit([cls |-> "WaveformMultiply", mulwaves |-> LiftAll(waves),
              period |-> MaxGetPeriod(LiftAll(waves), 1), count |-> 1],
             name, R(0), kw)

\* self.__dict__.copy (): every instance attribute, passed on as **kwargs
DictCopy(self) == [k \in (DOMAIN self) \ {"cls"} |-> self[k]]

\* f'{other:g}' for the integers the model uses
FmtG(r) == <<ToString(r[1])>>

OperandName(x) == IF IsWave(x) THEN x.name ELSE FmtG(x.num)

\* WaveformBase.__add__
OpAdd(self, other) ==
    WaveformAdd(<<self, other>>,
                <<"(">> \o self.name \o <<"+">> \o OperandName(other) \o <<")">>,
                DictCopy(self))

\* WaveformBase.__mul__
OpMul(self, other) ==
    WaveformMultiply(<<self, other>>,
                     <<"(">> \o self.name \o <<"*">> \o OperandName(other) \o <<")">>,
                     DictCopy(self))

\* np.sum (list (map (lambda w : w.period, waves)))
RECURSIVE SumPeriods(_, _)
SumPeriods(ws, i) ==
    IF i > Len(ws) THEN R(0) ELSE RAdd(ws[i].period, SumPeriods(ws, i + 1))

\* WaveformSeq (waves): an empty or missing list gives period 0
WaveformSeq(waves) ==
    PeriodicInit([cls |-> "WaveformSeq", swaves |-> waves],
                 IF Len(waves) > 0 THEN SumPeriods(waves, 1) ELSE R(0),
                 1, "zero", DefaultName, NoKw)

\* WaveformSeq.append
SeqAppend(self, wave) ==
    [self EXCEPT !.swaves = Append(self.swaves, wave),
                 !.period = RAdd(self.period, wave.period)]

\* WaveformSeq.prepend
SeqPrepend(self, wave) ==
    [self EXCEPT !.swaves = <<wave>> \o self.swaves,
                 !.period = RAdd(self.period, wave.period)]

\* Modulate (carrier, bitstream, mod_index, destructive, count, name='mod')
Modulate(carrier, bitstream, mod_index, destructive, count) ==
    PeriodicInit([cls |-> "Modulate",
                  eval |-> IF destructive THEN "destructive" ELSE "nondestructive",
                  carrier |-> IF destructive THEN OpMul(carrier, Num(R(-1))) ELSE carrier,
                  bitstream |-> bitstream,
                  mod_index |-> mod_index],
                 RMul(carrier.period, R(Len(bitstream))), count,
                 IF destructive THEN "zero" ELSE "carrier",
                 <<"mod">>, NoKw)

----------------------------------------------------------------------------
(* WaveformArb: linear interpolation between samples *)

ArbTimestep(w) == RDiv(w.period, R(Len(w.adata) - 1))

ArbTimestamp(w, ts) ==
    LET x == RMul(R(RFloor(RDiv(ts, ArbTimestep(w)))), ArbTimestep(w))
    IN  IF RLt(x, w.period) THEN x ELSE w.period

\* 0-based index into the samples
ArbIndex(w, ts) ==
    LET idx == RFloor(RDiv(ts, ArbTimestep(w)))
    IN  IF idx < Len(w.adata) - 1 THEN idx ELSE Len(w.adata) - 1

ArbDataAt(w, ts) ==
    IF Len(w.adata) < 2 THEN Err
    ELSE LET x1 == ArbTimestamp(w, ts)
             y1 == w.adata[ArbIndex(w, ts) + 1]
             x2 == RAdd(ArbTimestamp(w, ts), ArbTimestep(w))
             y2 == w.adata[ArbIndex(w, RAdd(ts, ArbTimestep(w))) + 1]
         IN  RAdd(y1, RDiv(RMul(RSub(ts, x1), RSub(y2, y1)), RSub(x2, x1)))

----------------------------------------------------------------------------
(* data_at: polymorphic evaluation *)

\* timestamp >= self.period * self.count; with count = float ('inf') the
\* product is inf for a positive period (never reached), -inf for a negative
\* one (always reached) and nan for period 0 (every comparison is False)
Expired(w, t) ==
    IF w.count = INF THEN w.period[1] < 0
    ELSE RLe(RMul(w.period, R(w.count)), t)

RECURSIVE DataAt(_, _)
\* a variant of the default that is lambda x: 0 whatever the subclass passes
DefaultAlwaysZero(w, t) == R(0)

\* self.__default (timestamp): lambda x: 0, or the carrier's data_at
DefaultAt(w, t) ==
    IF w.default = "zero" THEN R(0) ELSE DataAt(w.carrier, t)

\* np.sum / np.prod of the components' data_at (timestamp)
RECURSIVE SumAt(_, _, _)
SumAt(ws, i, t) ==
    IF i > Len(ws) THEN R(0) ELSE RAdd(DataAt(ws[i], t), SumAt(ws, i + 1, t))

RECURSIVE ProdAt(_, _, _)
ProdAt(ws, i, t) ==
    IF i > Len(ws) THEN R(1) ELSE RMul(DataAt(ws[i], t), ProdAt(ws, i + 1, t))

\* WaveformSeq._data_at: the loop from child i on, ctime elapsed so far
RECURSIVE SeqDataAt(_, _, _, _)
SeqDataAt(ws, i, ctime, ts) ==
    IF i > Len(ws) THEN R(0)
    ELSE IF ws[i].count = INF
         THEN \* the window ends at inf; for a period <= 0 ctime becomes -inf
              \* or nan, no later comparison succeeds and the loop falls through
              IF ws[i].period[1] > 0 THEN DataAt(ws[i], RSub(ts, ctime)) ELSE R(0)
    ELSE IF RLt(ts, RAdd(ctime, RMul(ws[i].period, R(ws[i].count))))
         THEN DataAt(ws[i], RSub(ts, ctime))
         ELSE SeqDataAt(ws, i + 1, RAdd(ctime, RMul(ws[i].period, R(ws[i].count))), ts)

\* Square._data_at
SquareDataAt(w, ts) ==
    IF RLt(ts, RMul(w.period, w.duty)) THEN R(1) ELSE R(-1)

\* index = int (timestamp / self.carrier.period)
ModIndex(w, ts) == RFloor(RDiv(ts, w.carrier.period))

\* Modulate.destructive
Destructive(w, ts) ==
    IF w.carrier.period[1] = 0 \/ ModIndex(w, ts) >= Len(w.bitstream) THEN Err
    ELSE IF w.bitstream[ModIndex(w, ts) + 1] # 0
         THEN RMul(DataAt(w.carrier, ts), w.mod_index)
         ELSE R(0)

\* a variant of Modulate.nondestructive that scales a set bit's slot by
\* mod_index instead of 1 - mod_index
NondestructiveScaledByIndex(w, ts) ==
    IF w.carrier.period[1] = 0 \/ ModIndex(w, ts) >= Len(w.bitstream) THEN Err
    ELSE IF w.bitstream[ModIndex(w, ts) + 1] # 0
         THEN RMul(DataAt(w.carrier, ts), w.mod_index)
         ELSE DataAt(w.carrier, ts)

\* Modulate.nondestructive
Nondestructive(w, ts) ==
    IF w.carrier.period[1] = 0 \/ ModIndex(w, ts) >= Len(w.bitstream) THEN Err
    ELSE IF w.bitstream[ModIndex(w, ts) + 1] # 0
         THEN RMul(DataAt(w.carrier, ts), RSub(R(1), w.mod_index))
         ELSE DataAt(w.carrier, ts)

\* self._data_at (timestamp), by class
LocalDataAt(w, ts) ==
    CASE w.cls = "WaveformArb" -> ArbDataAt(w, ts)
      [] w.cls = "Delay" -> w.val
      [] w.cls = "Square" -> SquareDataAt(w, ts)
      [] w.cls = "WaveformSeq" -> SeqDataAt(w.swaves, 1, R(0), ts)
      [] w.cls = "Modulate" ->
            IF w.eval = "destructive" THEN Destructive(w, ts) ELSE Nondestructive(w, ts)

\* WaveformPeriodic.data_at
PeriodicDataAt(w, t) ==
    IF Expired(w, t) THEN DefaultAt(w, t)
    ELSE IF IsErr(RModulo(t, w.period)) THEN Err
    ELSE LocalDataAt(w, RModulo(t, w.period))

DataAt(w, t) ==
    CASE w.cls = "WaveformBase" -> w.bdata
      [] w.cls = "WaveformAdd" -> SumAt(w.addwaves, 1, t)
      [] w.cls = "WaveformMultiply" -> ProdAt(w.mulwaves, 1, t)
      [] OTHER -> PeriodicDataAt(w, t)

----------------------------------------------------------------------------
(* Arbitrary-sample waveforms: construction, then queries *)

Samples == { R(v) : v \in -1..2 }
ArbCounts == {1, 2, INF}

ArbInit ==
    /\ pc = "built"
    /\ arb \in { WaveformArb(p, <<s0, s1>>, c) :
                   p \in Periods, s0 \in Samples, s1 \in Samples, c \in ArbCounts }
    /\ qt = R(0)
    /\ qv = R(0)
    /\ seq = Unused /\ acc = Unused /\ aux = Unused /\ last = Unused
    /\ args = Unused /\ mod = Unused

ArbQuery ==
    \E t \in Times :
        /\ pc' = "queried"
        /\ qt' = t
        /\ qv' = DataAt(arb, t)
        /\ UNCHANGED <<arb, seq, acc, aux, last, args, mod>>

ArbNext == ArbQuery

SpecArb == ArbInit /\ [][ArbNext]_vars

\* C3: for a WaveformArb with two samples [s0, s1], period P and repeat count 1,
\* data_at (0) is s0, data_at (P) is s1 (clamped to the last sample) and
\* data_at (P/2) is the midpoint (s0 + s1) / 2.
C3_ArbTwoSamples ==
    (pc = "queried" /\ arb.count = 1 /\ Len(arb.adata) = 2) =>
        /\ qt = R(0) => qv = arb.adata[1]
        /\ qt = arb.period => qv = arb.adata[2]
        /\ qt = RDiv(arb.period, R(2)) => qv = RDiv(RAdd(arb.adata[1], arb.adata[2]), R(2))

----------------------------------------------------------------------------
(* Sequences: construction from a list, append, prepend, queries *)

\* Ramp (period, count, up): a two-sample WaveformArb
Ramp(period, count, up) ==
    WaveformArb(period, IF up THEN <<R(0), R(1)>> ELSE <<R(1), R(0)>>, count)

Children ==
    { Delay(p, R(v), c) : p \in Periods, v \in 1..2, c \in 1..2 }
    \cup { Ramp(p, c, TRUE) : p \in Periods, c \in 1..2 }

SeqInit ==
    /\ pc = "built"
    /\ seq \in { WaveformSeq(<<>>) } \cup { WaveformSeq(<<c>>) : c \in Children }
    /\ qt = R(0)
    /\ qv = R(0)
    /\ arb = Unused /\ acc = Unused /\ aux = Unused /\ last = Unused
    /\ args = Unused /\ mod = Unused

SeqDoAppend ==
    \E c \in Children :
        /\ Len(seq.swaves) < MaxChildren
        /\ seq' = SeqAppend(seq, c)
        /\ pc' = "built"
        /\ UNCHANGED <<arb, acc, aux, last, args, mod, qt, qv>>

SeqDoPrepend ==
    \E c \in Children :
        /\ Len(seq.swaves) < MaxChildren
        /\ seq' = SeqPrepend(seq, c)
        /\ pc' = "built"
        /\ UNCHANGED <<arb, acc, aux, last, args, mod, qt, qv>>

SeqQuery ==
    \E t \in Times :
        /\ pc' = "queried"
        /\ qt' = t
        /\ qv' = DataAt(seq, t)
        /\ UNCHANGED <<arb, seq, acc, aux, last, args, mod>>

SeqNext == SeqDoAppend \/ SeqDoPrepend \/ SeqQuery

SpecSeq == SeqInit /\ [][SeqNext]_vars

\* the time the children before child k take: the sum of their period * count
RECURSIVE Elapsed(_, _)
Elapsed(ws, k) ==
    IF k <= 1 THEN R(0)
    ELSE RAdd(Elapsed(ws, k - 1), RMul(ws[k - 1].period, R(ws[k - 1].count)))

\* C4: in every reachable state of a Sequence, its period is the sum over its
\* children of child.period * child.repeat_count.
C4_SeqPeriodIsSum ==
    seq.period = Elapsed(seq.swaves, Len(seq.swaves) + 1)

\* C5: data_at (t) of a Sequence is child_k.data_at (t - elapsed_k) for the
\* child whose window [elapsed_k, elapsed_k + period_k * count_k) contains t,
\* and 0 for every t at or past the end of the last child's window.
C5_SeqDelegates ==
    pc = "queried" =>
        /\ \A k \in 1..Len(seq.swaves) :
              (RLe(Elapsed(seq.swaves, k), qt) /\ RLt(qt, Elapsed(seq.swaves, k + 1)))
                  => qv = DataAt(seq.swaves[k], RSub(qt, Elapsed(seq.swaves, k)))
        /\ RLe(Elapsed(seq.swaves, Len(seq.swaves) + 1), qt) => qv = R(0)

----------------------------------------------------------------------------
(* Sums and products: the + and * operators and the constructors *)

Half == RNorm(1, 2)

AlgPrims ==
    { Delay(p, R(2), 1) : p \in Periods }
    \cup { Square(p, Half, INF) : p \in Periods }

AlgNumbers == { Num(R(-1)), Num(R(3)) }

NoOp(n) == [op |-> "none", n |-> n]

AlgInit ==
    /\ pc = "built"
    /\ acc \in AlgPrims
    /\ aux \in AlgPrims
    /\ last = NoOp(0)
    /\ qt = R(0)
    /\ qv = R(0)
    /\ arb = Unused /\ seq = Unused /\ args = Unused /\ mod = Unused

\* acc = acc + o
AlgOpAdd ==
    \E o \in AlgPrims \cup AlgNumbers \cup {aux} :
        /\ last.n < MaxOps
        /\ acc' = OpAdd(acc, o)
        /\ last' = [op |-> "add", via |-> "operator", a |-> acc, b |-> o, n |-> last.n + 1]
        /\ UNCHANGED <<pc, arb, seq, aux, args, mod, qt, qv>>

\* acc = acc * o
AlgOpMul ==
    \E o \in AlgPrims \cup AlgNumbers \cup {aux} :
        /\ last.n < MaxOps
        /\ acc' = OpMul(acc, o)
        /\ last' = [op |-> "mul", via |-> "operator", a |-> acc, b |-> o, n |-> last.n + 1]
        /\ UNCHANGED <<pc, arb, seq, aux, args, mod, qt, qv>>

\* acc = WaveformAdd ([acc, o], name='sum')
AlgNewAdd ==
    \E o \in AlgPrims \cup AlgNumbers \cup {aux} :
        /\ last.n < MaxOps
        /\ acc' = WaveformAdd(<<acc, o>>, <<"sum">>, NoKw)
        /\ last' = [op |-> "add", via |-> "constructor", a |-> acc, b |-> o, n |-> last.n + 1]
        /\ UNCHANGED <<pc, arb, seq, aux, args, mod, qt, qv>>

\* acc = WaveformMultiply ([acc, o], name='prod')
AlgNewMul ==
    \E o \in AlgPrims \cup AlgNumbers \cup {aux} :
        /\ last.n < MaxOps
        /\ acc' = WaveformMultiply(<<acc, o>>, <<"prod">>, NoKw)
        /\ last' = [op |-> "mul", via |-> "constructor", a |-> acc, b |-> o, n |-> last.n + 1]
        /\ UNCHANGED <<pc, arb, seq, aux, args, mod, qt, qv>>

\* acc, aux = aux, acc: the expression built so far becomes a right operand
AlgSwap ==
    /\ acc' = aux
    /\ aux' = acc
    /\ last' = NoOp(last.n)
    /\ UNCHANGED <<pc, arb, seq, args, mod, qt, qv>>

AlgNext == AlgOpAdd \/ AlgOpMul \/ AlgNewAdd \/ AlgNewMul \/ AlgSwap

SpecAlg == AlgInit /\ [][AlgNext]_vars

\* the value and the period of an operand: a bare number is a constant of period 0
OperandAt(o, t) == IF IsWave(o) THEN DataAt(o, t) ELSE o.num
OperandPeriod(o) == IF IsWave(o) THEN GetPeriod(o) ELSE R(0)

\* C1: the waveform built by A + B evaluates at every t >= 0 to
\* A.data_at (t) + B.data_at (t), and A * B to A.data_at (t) * B.data_at (t),
\* whether A and B are primitives, bare numbers or sums and products built
\* earlier; so (A + B) + C evaluates to A + B + C pointwise.
C1_OperatorsPointwise ==
    (last.op # "none" /\ last.via = "operator") =>
        \A t \in Times :
            DataAt(acc, t) =
                IF last.op = "add"
                THEN RAdd(OperandAt(last.a, t), OperandAt(last.b, t))
                ELSE RMul(OperandAt(last.a, t), OperandAt(last.b, t))

\* C2: the period of every Sum or Product, built by a constructor or by an
\* operator, is the maximum of its components' periods (a lifted number
\* counting as 0), the same for either operand order.
C2_PeriodIsMax ==
    last.op # "none" =>
        /\ acc.period = RMax(OperandPeriod(last.a), OperandPeriod(last.b))
        /\ (last.via = "operator" /\ IsWave(last.b)) =>
              /\ OpAdd(last.a, last.b).period = OpAdd(last.b, last.a).period
              /\ OpMul(last.a, last.b).period = OpMul(last.b, last.a).period

----------------------------------------------------------------------------
(* UARTModulate: the bitstream of a byte sequence *)

\* [b] * n
Rep(b, n) == [i \in 1..n |-> b]

Xor(a, b) == (a + b) % 2

\* bs = [0] * int (delay / carrier.period)
UartPadding(delay, carrier) == Rep(0, RFloor(RDiv(delay, carrier.period)))

\* a variant of the inner loop that emits the most significant bit first
RECURSIVE DataBitsMsbFirst(_, _, _)
DataBitsMsbFirst(d, n, cpb) ==
    IF n = 0 THEN <<>>
    ELSE DataBitsMsbFirst(d \div 2, n - 1, cpb) \o Rep(IF d % 2 = 1 THEN 0 ELSE 1, cpb)

\* the inner loop, n bits of d left: the inverse of d & 1, cpb times, then d >>= 1
RECURSIVE DataBits(_, _, _)
DataBits(d, n, cpb) ==
    IF n = 0 THEN <<>>
    ELSE Rep(IF d % 2 = 1 THEN 0 ELSE 1, cpb) \o DataBits(d \div 2, n - 1, cpb)

\* the inner loop's p ^= d & 1 over n bits of d
RECURSIVE ParityAfter(_, _, _)
ParityAfter(par, d, n) ==
    IF n = 0 THEN par ELSE ParityAfter(Xor(par, d % 2), d \div 2, n - 1)

\* bs += [p] * cpb for 'E', [p ^ 1] * cpb for 'O', nothing otherwise
ParityBits(parity, par, cpb) ==
    CASE parity = "E" -> Rep(par, cpb)
      [] parity = "O" -> Rep(Xor(par, 1), cpb)
      [] OTHER -> <<>>

\* a variant that does not replicate the stop bits cpb times
StopBitsOnce(stopbits, cpb) == Rep(0, stopbits)

\* bs += [0] * stopbits * cpb
StopBits(stopbits, cpb) == Rep(0, stopbits * cpb)

\* the loop over the bytes from byte i on; par is p as the earlier bytes left it
RECURSIVE UartFrames(_, _, _, _, _, _)
UartFrames(data, i, par, parity, stopbits, cpb) ==
    IF i > Len(data) THEN <<>>
    ELSE Rep(1, cpb)
         \o DataBits(data[i], 8, cpb)
         \o ParityBits(parity, ParityAfter(par, data[i], 8), cpb)
         \o StopBits(stopbits, cpb)
         \o UartFrames(data, i + 1, ParityAfter(par, data[i], 8), parity, stopbits, cpb)

\* the bitstream UARTModulate.__init__ builds
UartBitstream(a) ==
    UartPadding(a.delay, a.carrier)
    \o UartFrames(a.data, 1, 0, a.parity, a.stopbits, a.cpb)

\* UARTModulate (carrier, data, parity, stopbits, count, delay, cpb, **kwargs)
UARTModulate(a) ==
    Modulate(a.carrier, UartBitstream(a), Half, a.destructive, a.count)

ByteVals == {0, 1, 130, 255}

RECURSIVE SeqsUpTo(_, _)
SeqsUpTo(S, n) ==
    IF n = 0 THEN { <<>> }
    ELSE SeqsUpTo(S, n - 1)
         \cup { Append(q, e) : q \in { r \in SeqsUpTo(S, n - 1) : Len(r) = n - 1 }, e \in S }

UartArgs ==
    [ carrier : { Delay(p, R(1), INF) : p \in Periods },
      data : SeqsUpTo(ByteVals, MaxBytes),
      parity : {"N", "E", "O"},
      stopbits : 0..MaxStop,
      count : {1},
      delay : { R(0), RNorm(5, 2) },
      cpb : 1..MaxCpb,
      destructive : BOOLEAN ]

UartInit ==
    /\ pc = "args"
    /\ args \in UartArgs
    /\ mod = Unused
    /\ qt = R(0)
    /\ qv = R(0)
    /\ arb = Unused /\ seq = Unused /\ acc = Unused /\ aux = Unused /\ last = Unused

UartBuild ==
    /\ pc = "args"
    /\ pc' = "built"
    /\ mod' = UARTModulate(args)
    /\ UNCHANGED <<arb, seq, acc, aux, last, args, qt, qv>>

UartNext == UartBuild

SpecUart == UartInit /\ [][UartNext]_vars

\* the arguments of the spec's example: byte 0x01, no parity, 2 stop bits,
\* 1 cycle per bit, no start delay
IsUartExample ==
    /\ args.data = <<1>> /\ args.parity = "N" /\ args.stopbits = 2
    /\ args.cpb = 1 /\ args.delay = R(0)

\* C6 (as stated): encoding the byte 0x01 with no parity, 2 stop bits, 1 cycle
\* per bit and no start delay yields [1, 0,1,1,1,1,1,1,0, 0,0].
C6_UartExampleAsStated ==
    (pc = "built" /\ IsUartExample) => mod.bitstream = <<1, 0, 1, 1, 1, 1, 1, 1, 0, 0, 0>>

\* C6 (amended): that encoding yields [1, 0,1,1,1,1,1,1,1, 0,0]: the start
\* bit, the inverse of bit 0 (a 0), the inverses of bits 1..7 (seven 1s), and
\* two stop bits.
C6_UartExample ==
    (pc = "built" /\ IsUartExample) => mod.bitstream = <<1, 0, 1, 1, 1, 1, 1, 1, 1, 0, 0>>

C6_Witness == pc = "built" /\ IsUartExample

\* bit i (0 = least significant) of byte d
BitOf(d, i) == (d \div (2 ^ i)) % 2

\* the layout the claims describe
UartPad == RFloor(RDiv(args.delay, args.carrier.period))
UartHasParity == IF args.parity \in {"E", "O"} THEN 1 ELSE 0
UartFrameLen == (1 + 8 + UartHasParity + args.stopbits) * args.cpb
\* the slot (0-based, in units of cpb cycles) of position j within its frame
UartSlot(j) == ((j - UartPad - 1) % UartFrameLen) \div args.cpb
\* the byte (1-based) whose frame holds position j
UartByteAt(j) == ((j - UartPad - 1) \div UartFrameLen) + 1

\* C7: for every byte of the sequence, the second and later ones included,
\* the emitted parity bit is computed from that byte's own 8 data bits: their
\* XOR with even parity, the inverse of their XOR with odd parity.
C7_ParityPerByte ==
    (pc = "built" /\ UartHasParity = 1) =>
        \A j \in (UartPad + 1)..Len(mod.bitstream) :
            UartSlot(j) = 9 =>
                mod.bitstream[j] =
                    Xor(ParityAfter(0, args.data[UartByteAt(j)], 8),
                        IF args.parity = "O" THEN 1 ELSE 0)

\* C8: the bitstream is the idle padding followed, for each byte in order, by
\* cpb ones, cpb copies of the inverse of each data bit (least significant
\* first), cpb parity slots if parity is enabled, and stopbits * cpb zeros; its
\* length is padding + n_bytes * (1 + 8 + parity + stopbits) * cpb.
C8_UartLayout ==
    pc = "built" =>
        /\ Len(mod.bitstream) = UartPad + Len(args.data) * UartFrameLen
        /\ \A j \in 1..Len(mod.bitstream) :
              IF j <= UartPad THEN mod.bitstream[j] = 0
              ELSE CASE UartSlot(j) = 0 -> mod.bitstream[j] = 1
                     [] UartSlot(j) \in 1..8 ->
                          mod.bitstream[j] = 1 - BitOf(args.data[UartByteAt(j)], UartSlot(j) - 1)
                     [] UartSlot(j) = 9 /\ UartHasParity = 1 ->
                          /\ mod.bitstream[j] \in {0, 1}
                          /\ mod.bitstream[j] =
                               mod.bitstream[UartPad + (UartByteAt(j) - 1) * UartFrameLen
                                             + 9 * args.cpb + 1]
                     [] OTHER -> mod.bitstream[j] = 0

C8_Witness ==
    /\ pc = "built" /\ Len(args.data) = 2 /\ args.cpb = 2 /\ args.parity = "E"
    /\ args.stopbits = 2 /\ UartPad > 0 /\ args.data[2] = 130

----------------------------------------------------------------------------
(* Modulate: amplitude-shift modulation of a carrier, then queries *)

Carriers ==
    { Delay(p, R(v), INF) : p \in Periods, v \in {-1, 1} }
    \cup { Square(p, Half, c) : p \in Periods, c \in {2, INF} }
    \cup { OpMul(Square(p, Half, INF), Num(R(3))) : p \in Periods }

ModArgs ==
    [ carrier : Carriers,
      bitstream : { b \in SeqsUpTo({0, 1}, MaxBits) : Len(b) >= 1 },
      mod_index : { Half, RNorm(1, 4) },
      destructive : BOOLEAN,
      count : {1, 2, INF} ]

ModInit ==
    /\ pc = "built"
    /\ args \in ModArgs
    /\ mod = Modulate(args.carrier, args.bitstream, args.mod_index,
                      args.destructive, args.count)
    /\ qt = R(0)
    /\ qv = R(0)
    /\ arb = Unused /\ seq = Unused /\ acc = Unused /\ aux = Unused /\ last = Unused

ModQuery ==
    \E t \in Times :
        /\ pc' = "queried"
        /\ qt' = t
        /\ qv' = DataAt(mod, t)
        /\ UNCHANGED <<arb, seq, acc, aux, last, args, mod>>

ModNext == ModQuery

SpecMod == ModInit /\ [][ModNext]_vars

\* t is inside the active window: t < period * repeat_count
ModActive == args.count = INF \/ RLt(qt, RMul(mod.period, R(args.count)))
\* the modulation's local time, t mod period, and its slot
ModLocal == RModulo(qt, mod.period)
ModSlot == RFloor(RDiv(ModLocal, args.carrier.period))
\* a primitive carrier that repeats forever
CarrierRunsForever == args.carrier.cls \in {"Delay", "Square"} /\ args.carrier.count = INF

\* C9 (as stated): inside the active window a non-destructive modulation is
\* C.data_at (t) * (1 - m) where the slot's bit is 1 and C.data_at (t) where it
\* is 0, the slot being floor ((t mod period) / C.period).
C9_NondestructiveAsStated ==
    (pc = "queried" /\ ~args.destructive /\ ModActive) =>
        qv = IF args.bitstream[ModSlot + 1] = 1
             THEN RMul(DataAt(args.carrier, qt), RSub(R(1), args.mod_index))
             ELSE DataAt(args.carrier, qt)

\* C9 (amended): inside the active window a non-destructive modulation is
\* C.data_at (t mod period) * (1 - m) where the slot's bit is 1 and
\* C.data_at (t mod period) where it is 0: the carrier is evaluated at the
\* modulation's local time.  For a primitive carrier of infinite repeat count
\* that is C.data_at (t).  A constant-1 carrier, b = [1, 0] and m = 0.5 give
\* 0.5 in slot 0 and 1.0 in slot 1.
C9_Nondestructive ==
    (pc = "queried" /\ ~args.destructive /\ ModActive) =>
        /\ qv = IF args.bitstream[ModSlot + 1] = 1
                THEN RMul(DataAt(args.carrier, ModLocal), RSub(R(1), args.mod_index))
                ELSE DataAt(args.carrier, ModLocal)
        /\ CarrierRunsForever =>
              qv = IF args.bitstream[ModSlot + 1] = 1
                   THEN RMul(DataAt(args.carrier, qt), RSub(R(1), args.mod_index))
                   ELSE DataAt(args.carrier, qt)
        /\ ( /\ args.carrier.cls = "Delay" /\ args.carrier.val = R(1)
             /\ args.bitstream = <<1, 0>> /\ args.mod_index = Half ) =>
              qv = IF ModSlot = 0 THEN Half ELSE R(1)

C9_Witness ==
    /\ pc = "queried" /\ ~args.destructive /\ ModActive
    /\ args.carrier.cls = "Square" /\ args.carrier.count = INF
    /\ args.bitstream = <<1, 0>> /\ args.mod_index = RNorm(1, 4)
    /\ args.count = 2 /\ RLe(mod.period, qt) /\ ModSlot = 0
    /\ qv = RNorm(3, 4)

\* C10: inside the active window a destructive modulation is
\* -C.data_at (t) * m where the slot's bit is 1 and 0 where it is 0.  A
\* constant -1 carrier, b = [1, 0] and m = 0.5 give 0.5 in slot 0 and 0 in
\* slot 1.  Stated here for the carriers that repeat forever, for which
\* C.data_at (t) and C.data_at (t mod period) are the same value.
C10_Destructive ==
    (pc = "queried" /\ args.destructive /\ ModActive /\ args.carrier.count = INF) =>
        /\ qv = IF args.bitstream[ModSlot + 1] = 1
                THEN RMul(RSub(R(0), DataAt(args.carrier, qt)), args.mod_index)
                ELSE R(0)
        /\ ( /\ args.carrier.cls = "Delay" /\ args.carrier.val = R(-1)
             /\ args.bitstream = <<1, 0>> /\ args.mod_index = Half ) =>
              qv = IF ModSlot = 0 THEN Half ELSE R(0)

\* C11: with a finite repeat count, every evaluation at t >= period * count
\* returns without error: exactly 0 for a destructive modulation, the raw
\* (unscaled) carrier's value at t for a non-destructive one, whatever the
\* bitstream.
C11_PastWindow ==
    (pc = "queried" /\ args.count # INF /\ ~ModActive) =>
        /\ ~IsErr(qv)
        /\ qv = IF args.destructive THEN R(0) ELSE DataAt(args.carrier, qt)

\* past the window of a non-destructive modulation whose only bit is set: the
\* carrier's value 3 is returned unscaled
C11_Witness ==
    /\ pc = "queried" /\ args.count = 1 /\ ~ModActive /\ ~args.destructive
    /\ args.bitstream = <<1>> /\ args.carrier.cls = "WaveformMultiply"
    /\ qv = R(3)

\* C18: for a carrier of infinite repeat count, any bitstream and any
\* modulation index, the pointwise sum of the carrier and its destructive
\* modulation equals its non-destructive modulation at every t >= 0, inside
\* the active window and past its end, both modulations having the same finite
\* repeat count.
C18_SumIsNondestructive ==
    (pc = "queried" /\ args.destructive /\ args.carrier.count = INF /\ args.count # INF) =>
        DataAt(WaveformAdd(<<args.carrier, mod>>, DefaultName, NoKw), qt)
            = DataAt(Modulate(args.carrier, args.bitstream, args.mod_index,
                              FALSE, args.count), qt)

----------------------------------------------------------------------------
(* GapModulate: a sequence of ramps and holds built from a bitstream *)

\* default characteristic durations, in carrier cycles
C_ZERO == 9
C_ONE == 15
C_IDLE == 20
C_TRANSITION == 4

\* query times of the gap scenario range over 0 .. MaxGapTick / TimeDen
MaxGapTick == 80

\* a variant of math.ceil that rounds down
RCeilAsFloor(a) == a[1] \div a[2]

\* math.ceil
RCeil(a) == -((-a[1]) \div a[2])

\* a variant of the bit loop that picks the templates the other way round
RECURSIVE GapSymbolsSwapped(_, _, _, _, _)
GapSymbolsSwapped(bitstream, i, one, zero, idle) ==
    IF i > Len(bitstream) THEN <<>>
    ELSE <<IF bitstream[i] # 0 THEN zero ELSE one, idle>>
         \o GapSymbolsSwapped(bitstream, i + 1, one, zero, idle)

\* for b in bitstream: seq += [one] if b else [zero]; seq += [idle]
RECURSIVE GapSymbols(_, _, _, _, _)
GapSymbols(bitstream, i, one, zero, idle) ==
    IF i > Len(bitstream) THEN <<>>
    ELSE <<IF bitstream[i] # 0 THEN one ELSE zero, idle>>
         \o GapSymbols(bitstream, i + 1, one, zero, idle)

\* GapModulate (carrier, bitstream, delay, c_zero, c_one, c_idle, c_transition)
GapModulate(carrier, bitstream, delay, c_zero, c_one, c_idle, c_transition) ==
    LET t_transition == RMul(R(c_transition), carrier.period)
        t_zero == RMul(R(c_zero), carrier.period)
        t_one == RMul(R(c_one), carrier.period)
        t_idle == RMul(R(c_idle), carrier.period)
        zero == WaveformSeq(<<Ramp(t_transition, 1, FALSE),
                              WaveformArb(RSub(t_zero, t_transition), <<R(0), R(0)>>, 1)>>)
        one == WaveformSeq(<<Ramp(t_transition, 1, FALSE),
                             WaveformArb(RSub(t_one, t_transition), <<R(0), R(0)>>, 1)>>)
        idle == WaveformSeq(<<Ramp(t_transition, 1, TRUE),
                              WaveformArb(RSub(t_idle, t_transition), <<R(1), R(1)>>, 1)>>)
        lead == WaveformArb(RMul(carrier.period,
                                 R(RCeil(RDiv(delay, carrier.period)))),
                            <<R(1), R(1)>>, 1)
    IN  Update(WaveformSeq(<<lead>> \o GapSymbols(bitstream, 1, one, zero, idle)),
               [name |-> <<"gapMod">>])

\* the characteristic durations tried: the defaults, small ones, and one whose
\* transition is as long as the zero symbol
GapDurations ==
    { [c_zero |-> C_ZERO, c_one |-> C_ONE, c_idle |-> C_IDLE,
       c_transition |-> C_TRANSITION] }
    \cup [ c_zero : {2, 3}, c_one : {2, 3}, c_idle : {2}, c_transition : {1} ]
    \cup { [c_zero |-> 2, c_one |-> 3, c_idle |-> 3, c_transition |-> 2] }

GapDelays == { R(0), RNorm(1, 2), RNorm(3, 2) }

GapTimes == { RNorm(k, TimeDen) : k \in 0..MaxGapTick }

GapArgs ==
    [ carrier : { Delay(p, R(1), INF) : p \in Periods },
      bitstream : SeqsUpTo({0, 1}, MaxBits),
      delay : GapDelays,
      dur : GapDurations ]

GapInit ==
    /\ pc = "args"
    /\ args \in GapArgs
    /\ mod = Unused
    /\ qt = R(0)
    /\ qv = R(0)
    /\ arb = Unused /\ seq = Unused /\ acc = Unused /\ aux = Unused /\ last = Unused

GapBuild ==
    /\ pc = "args"
    /\ mod' = GapModulate(args.carrier, args.bitstream, args.delay,
                          args.dur.c_zero, args.dur.c_one, args.dur.c_idle,
                          args.dur.c_transition)
    /\ pc' = "built"
    /\ UNCHANGED <<arb, seq, acc, aux, last, args, qt, qv>>

\* data_at changes no state: one query after the construction reaches every
\* (time, value) pair
GapQuery ==
    \E t \in GapTimes :
        /\ pc = "built"
        /\ pc' = "queried"
        /\ qt' = t
        /\ qv' = DataAt(mod, t)
        /\ UNCHANGED <<arb, seq, acc, aux, last, args, mod>>

GapNext == GapBuild \/ GapQuery

SpecGap == GapInit /\ [][GapNext]_vars

\* the carrier period, and the cycles of the leading hold: the least n with
\* n * P >= delay
GapP == args.carrier.period
GapLeadCycles ==
    CHOOSE n \in 0..(RFloor(RDiv(args.delay, GapP)) + 1) :
        /\ RLe(args.delay, RMul(R(n), GapP))
        /\ n = 0 \/ RLt(RMul(R(n - 1), GapP), args.delay)
GapSymCycles(b) == IF b # 0 THEN args.dur.c_one ELSE args.dur.c_zero
\* cycles before the symbol of bit k
RECURSIVE GapStartCycles(_)
GapStartCycles(k) ==
    IF k = 1 THEN GapLeadCycles
    ELSE GapStartCycles(k - 1) + GapSymCycles(args.bitstream[k - 1]) + args.dur.c_idle
GapStart(k) == RMul(R(GapStartCycles(k)), GapP)
GapCycles(n) == RMul(R(n), GapP)
GapWellFormed ==
    /\ args.dur.c_transition < args.dur.c_zero
    /\ args.dur.c_transition < args.dur.c_one
    /\ args.dur.c_transition < args.dur.c_idle
GapDefaults ==
    args.dur = [c_zero |-> C_ZERO, c_one |-> C_ONE, c_idle |-> C_IDLE,
                c_transition |-> C_TRANSITION]
GapBuilt == pc \in {"built", "queried"}
\* the symbol of bit k and the idle after it: children 2k and 2k + 1
GapSymbolOf(k) == mod.swaves[2 * k]
GapIdleOf(k) == mod.swaves[2 * k + 1]
GapShortCycles == IF C_ZERO < C_ONE THEN C_ZERO ELSE C_ONE
GapLongCycles == IF C_ZERO < C_ONE THEN C_ONE ELSE C_ZERO
\* a falling ramp followed by a low hold of n - transition cycles
GapIsSymbol(w, n) ==
    /\ w.cls = "WaveformSeq" /\ Len(w.swaves) = 2 /\ w.count = 1
    /\ w.swaves[1] = Ramp(GapCycles(args.dur.c_transition), 1, FALSE)
    /\ w.swaves[2] = WaveformArb(GapCycles(n - args.dur.c_transition), <<R(0), R(0)>>, 1)
\* a rising ramp followed by a high hold, c_idle cycles in all
GapIsIdle(w) ==
    /\ w.cls = "WaveformSeq" /\ Len(w.swaves) = 2 /\ w.count = 1
    /\ w.swaves[1] = Ramp(GapCycles(args.dur.c_transition), 1, TRUE)
    /\ w.swaves[2] = WaveformArb(GapCycles(args.dur.c_idle - args.dur.c_transition),
                                 <<R(1), R(1)>>, 1)

\* C12 (as stated): with the default durations every set bit is a falling ramp
\* and the short low hold, every clear bit a falling ramp and the long low
\* hold, so a set bit's symbol is strictly shorter than a clear bit's; each
\* symbol is followed by the fixed idle.
C12_GapSymbolsAsStated ==
    (GapBuilt /\ GapDefaults) =>
        /\ \A k \in 1..Len(args.bitstream) :
              /\ GapIsSymbol(GapSymbolOf(k),
                             IF args.bitstream[k] # 0 THEN GapShortCycles ELSE GapLongCycles)
              /\ GapIsIdle(GapIdleOf(k))
        /\ \A j, k \in 1..Len(args.bitstream) :
              (args.bitstream[j] # 0 /\ args.bitstream[k] = 0) =>
                  RLt(GapSymbolOf(j).period, GapSymbolOf(k).period)

\* C12 (amended): with the default durations every set bit is a falling ramp
\* and the long low hold (the one-symbol, 15 cycles in all), every clear bit a
\* falling ramp and the short low hold (the zero-symbol, 9 cycles in all), so a
\* set bit's symbol is strictly longer than a clear bit's; each symbol is
\* followed by the fixed idle.
C12_GapSymbols ==
    (GapBuilt /\ GapDefaults) =>
        /\ \A k \in 1..Len(args.bitstream) :
              /\ GapIsSymbol(GapSymbolOf(k),
                             IF args.bitstream[k] # 0 THEN GapLongCycles ELSE GapShortCycles)
              /\ GapIsIdle(GapIdleOf(k))
        /\ \A j, k \in 1..Len(args.bitstream) :
              (args.bitstream[j] # 0 /\ args.bitstream[k] = 0) =>
                  RLt(GapSymbolOf(k).period, GapSymbolOf(j).period)

C12_Witness ==
    /\ pc = "built" /\ GapDefaults /\ args.bitstream = <<1, 0>>
    /\ GapSymbolOf(1).period = GapCycles(15)
    /\ GapSymbolOf(2).period = GapCycles(9)

\* C13: when the transition is shorter than each symbol and the idle, the
\* period is ceil (d / P) * P + the sum over the bits of (symbol + idle) * P,
\* each symbol lasting its configured zero / one duration; the symbol of bit k
\* starts (its falling ramp leaves 1) at ceil (d / P) * P + the sum over the
\* earlier bits; the value is 1 in the leading hold and every idle high hold
\* and 0 in every low hold.
C13_GapLayout ==
    (GapBuilt /\ GapWellFormed) =>
        /\ mod.period = GapStart(Len(args.bitstream) + 1)
        /\ \A k \in 1..Len(args.bitstream) :
              /\ GapSymbolOf(k).period = GapCycles(GapSymCycles(args.bitstream[k]))
              /\ Elapsed(mod.swaves, 2 * k) = GapStart(k)
        /\ pc = "queried" =>
              /\ RLt(qt, GapCycles(GapLeadCycles)) => qv = R(1)
              /\ \A k \in 1..Len(args.bitstream) :
                    LET s == GapStart(k)
                        T == GapCycles(args.dur.c_transition)
                        e == RAdd(s, GapCycles(GapSymCycles(args.bitstream[k])))
                        f == RAdd(e, GapCycles(args.dur.c_idle))
                    IN  /\ (RLe(s, qt) /\ RLt(qt, RAdd(s, T))) =>
                              qv = RSub(R(1), RDiv(RSub(qt, s), T))
                        /\ (RLe(RAdd(s, T), qt) /\ RLt(qt, e)) => qv = R(0)
                        /\ (RLe(RAdd(e, T), qt) /\ RLt(qt, f)) => qv = R(1)

\* delay 1/2 with P = 1 gives a leading hold of one cycle; the query is in the
\* low hold of the second bit
C13_Witness ==
    /\ pc = "queried" /\ GapWellFormed /\ ~GapDefaults
    /\ args.delay = RNorm(1, 2) /\ GapP = R(1) /\ args.bitstream = <<1, 0>>
    /\ GapLeadCycles = 1
    /\ RLe(RAdd(GapStart(2), GapCycles(args.dur.c_transition)), qt)
    /\ RLt(qt, RAdd(GapStart(2), GapCycles(args.dur.c_zero)))
    /\ qv = R(0)

----------------------------------------------------------------------------
(* Construction of periodic waveforms from arguments of any sign and size *)

\* the outcome of a constructor call that raised exc
Raised(exc) == [cls |-> "raised", exc |-> exc]

\* Square.__init__ with its bounds check on the duty cycle
SquareChecked(period, duty, count) ==
    IF RLe(R(1), duty) \/ RLe(duty, R(0)) THEN Raised("ValueError")
    ELSE Square(period, duty, count)

NewPeriods == { R(p) : p \in -1..MaxPeriod }
NewCounts == {1, INF}

NewDelay ==
    \E p \in NewPeriods, v \in {R(1), R(2)}, c \in NewCounts :
        /\ pc = "start"
        /\ args' = [kind |-> "Delay", period |-> p, val |-> v, count |-> c]
        /\ acc' = Delay(p, v, c)
        /\ pc' = "built"
        /\ UNCHANGED <<arb, seq, aux, last, mod, qt, qv>>

NewSquare ==
    \E p \in NewPeriods, d \in {R(0), Half, R(1)}, c \in NewCounts :
        /\ pc = "start"
        /\ args' = [kind |-> "Square", period |-> p, duty |-> d, count |-> c]
        /\ acc' = SquareChecked(p, d, c)
        /\ pc' = "built"
        /\ UNCHANGED <<arb, seq, aux, last, mod, qt, qv>>

NewArb ==
    \E p \in NewPeriods, d \in SeqsUpTo({R(1), R(2)}, 2), c \in NewCounts :
        /\ pc = "start"
        /\ args' = [kind |-> "WaveformArb", period |-> p, data |-> d, count |-> c]
        /\ acc' = WaveformArb(p, d, c)
        /\ pc' = "built"
        /\ UNCHANGED <<arb, seq, aux, last, mod, qt, qv>>

NewRamp ==
    \E p \in NewPeriods, u \in BOOLEAN, c \in NewCounts :
        /\ pc = "start"
        /\ args' = [kind |-> "Ramp", period |-> p, up |-> u, count |-> c]
        /\ acc' = Ramp(p, c, u)
        /\ pc' = "built"
        /\ UNCHANGED <<arb, seq, aux, last, mod, qt, qv>>

\* WaveformSeq of no child or of one child: its period is the children's sum
NewSeq ==
    \E ws \in {<<>>} \cup { <<Delay(p, R(1), c)>> : p \in NewPeriods, c \in NewCounts } :
        /\ pc = "start"
        /\ args' = [kind |-> "WaveformSeq", waves |-> ws,
                    period |-> IF Len(ws) > 0 THEN SumPeriods(ws, 1) ELSE R(0)]
        /\ acc' = WaveformSeq(ws)
        /\ pc' = "built"
        /\ UNCHANGED <<arb, seq, aux, last, mod, qt, qv>>

\* Modulate: its period is carrier.period * len (bitstream)
NewModulate ==
    \E p \in NewPeriods, b \in SeqsUpTo({0, 1}, MaxBits), d \in BOOLEAN, c \in NewCounts :
        /\ pc = "start"
        /\ args' = [kind |-> "Modulate", carrier |-> Delay(p, R(1), INF),
                    bitstream |-> b, destructive |-> d, count |-> c,
                    period |-> RMul(p, R(Len(b)))]
        /\ acc' = Modulate(Delay(p, R(1), INF), b, Half, d, c)
        /\ pc' = "built"
        /\ UNCHANGED <<arb, seq, aux, last, mod, qt, qv>>

\* data_at on the object, if the constructor returned one
NewQuery ==
    \E t \in Times :
        /\ pc \in {"built", "queried"}
        /\ acc.cls # "raised"
        /\ pc' = "queried"
        /\ qt' = t
        /\ qv' = DataAt(acc, t)
        /\ UNCHANGED <<arb, seq, acc, aux, last, args, mod>>

NewInit ==
    /\ pc = "start"
    /\ acc = Unused /\ args = Unused
    /\ qt = R(0)
    /\ qv = R(0)
    /\ arb = Unused /\ seq = Unused /\ aux = Unused /\ last = Unused /\ mod = Unused

NewNext ==
    NewDelay \/ NewSquare \/ NewArb \/ NewRamp \/ NewSeq \/ NewModulate \/ NewQuery

SpecNew == NewInit /\ [][NewNext]_vars

NewBuilt == pc \in {"built", "queried"}

\* C14: constructing a periodic waveform (square, delay, arb, ramp, sequence,
\* modulated) with a period that is zero or negative fails at construction
\* with InvalidParameter.
C14_NonPositivePeriodFails ==
    (NewBuilt /\ RLe(args.period, R(0))) => acc = Raised("InvalidParameter")

\* C15: constructing a WaveformArb with fewer than 2 samples fails at
\* construction with InvalidParameter, and the failure is never left to the
\* evaluation: data_at of a constructed WaveformArb returns without raising for
\* every t >= 0.
\* Stated here for a positive period, to keep C14's case apart.
C15_ArbNeedsTwoSamples ==
    /\ (NewBuilt /\ args.kind = "WaveformArb" /\ RLt(R(0), args.period)
           /\ Len(args.data) < 2) =>
            acc = Raised("InvalidParameter")
    /\ (pc = "queried" /\ acc.cls = "WaveformArb" /\ RLt(R(0), args.period)) =>
            ~IsErr(qv)

----------------------------------------------------------------------------
(* Signal: a waveform sampled, normalised and quantised for upload *)

\* samples taken of a waveform that is not a WaveformArb: Signal.DDS_LENGTH,
\* 2**14 in the code, a bound of the model
DDS_LENGTH == 4
\* np.max (Signal.MIN_MAX)
MAX_VALUE == 32767

\* Python values of different types, kept apart so that they compare unequal
PyStr(c) == [str |-> c]
PyList(l) == [list |-> l]
\* x in l
PyIn(x, l) == \E i \in 1..Len(l) : l[i] = x

\* list (name): a name is the sequence of its characters (a run of letters is
\* kept as one element)
ListOfName(name) == [i \in 1..Len(name) |-> PyStr(name[i])]

\* ['.', '_', ':', '-', '*', '+'] in list (self.name)
NameRejected(name) ==
    PyIn(PyList(<<PyStr("."), PyStr("_"), PyStr(":"), PyStr("-"), PyStr("*"), PyStr("+")>>),
         ListOfName(name))

\* int (x): truncation towards zero
RInt(a) == IF a[1] >= 0 THEN a[1] \div a[2] ELSE -((-a[1]) \div a[2])
RAbs(a) == <<Abs(a[1]), a[2]>>

\* np.max (np.abs (y))
RECURSIVE MaxAbs(_, _)
MaxAbs(y, i) ==
    IF i = Len(y) THEN RAbs(y[i]) ELSE RMax(RAbs(y[i]), MaxAbs(y, i + 1))

\* the period taken from the waveform (no period argument given)
SignalPeriod(wave) ==
    IF wave.count = INF THEN wave.period ELSE RMul(wave.period, R(wave.count))

SignalLength(wave) ==
    IF wave.cls = "WaveformArb" THEN Len(wave.adata) ELSE DDS_LENGTH

\* np.linspace (0, self.period, self.length, endpoint=False)
SignalX(wave) ==
    [i \in 1..SignalLength(wave) |->
        RDiv(RMul(R(i - 1), SignalPeriod(wave)), R(SignalLength(wave)))]

\* y: the samples of a WaveformArb, else data_at at every x
SignalY(wave) ==
    IF wave.cls = "WaveformArb" THEN wave.adata
    ELSE [i \in 1..SignalLength(wave) |-> DataAt(wave, SignalX(wave)[i])]

\* Signal (wave, name=name).  The name argument is [given |-> FALSE] for None
\* or [given |-> TRUE, str |-> name].  y / np.max (np.abs (y)) with a maximum
\* of 0 is nan in every element (numpy warns, it does not raise), and
\* int (nan * 32767) raises ValueError.
Signal(wave, name) ==
    LET nm == IF name.given THEN name.str ELSE wave.name
        y == SignalY(wave)
    IN  IF NameRejected(nm) THEN Raised("ValueError")
        ELSE IF Len(y) = 0 THEN Raised("ValueError")
        ELSE IF \E i \in 1..Len(y) : IsErr(y[i]) THEN Raised("ZeroDivisionError")
        ELSE IF MaxAbs(y, 1) = R(0) THEN Raised("ValueError")
        ELSE [cls |-> "Signal", wave |-> wave, name |-> nm,
              period |-> SignalPeriod(wave), length |-> SignalLength(wave),
              xs |-> SignalX(wave),
              ys |-> [i \in 1..Len(y) |-> RDiv(y[i], MaxAbs(y, 1))],
              data |-> [i \in 1..Len(y) |->
                          RInt(RMul(RDiv(y[i], MaxAbs(y, 1)), R(MAX_VALUE)))]]

\* Signal.upload
SignalUpload(self) == [values |-> self.data, datatype |-> "h"]

\* the constructor called with name=name
Named(w, name) == Update(w, [name |-> name])

SigPrims ==
    { Named(WaveformArb(p, d, 1), <<n>>) :
        p \in Periods, d \in {<<R(0), R(0)>>, <<R(1), R(-2)>>}, n \in {"a", "b"} }
    \cup { Delay(p, R(v), 1) : p \in Periods, v \in {0, 2} }
    \cup { Square(p, Half, INF) : p \in Periods }

SigWaves ==
    SigPrims \cup { OpAdd(a, b) : a, b \in { w \in SigPrims : w.cls = "WaveformArb" } }

SigNames ==
    { [given |-> FALSE] }
    \cup { [given |-> TRUE, str |-> n] :
             n \in { <<"sig">>, <<"my", "_", "sig">>, <<"a", "-", "b">> } }

SigInit ==
    /\ pc = "start"
    /\ acc = Unused /\ args = Unused /\ aux = Unused
    /\ qt = R(0)
    /\ qv = R(0)
    /\ arb = Unused /\ seq = Unused /\ last = Unused /\ mod = Unused

SigNew ==
    \E w \in SigWaves, n \in SigNames :
        /\ pc = "start"
        /\ args' = [wave |-> w, name |-> n]
        /\ acc' = Signal(w, n)
        /\ pc' = "built"
        /\ UNCHANGED <<arb, seq, aux, last, mod, qt, qv>>

SigUpload ==
    /\ pc = "built"
    /\ acc.cls = "Signal"
    /\ aux' = SignalUpload(acc)
    /\ pc' = "uploaded"
    /\ UNCHANGED <<arb, seq, acc, last, args, mod, qt, qv>>

SigNext == SigNew \/ SigUpload

SpecSig == SigInit /\ [][SigNext]_vars

SigBuilt == pc \in {"built", "uploaded"}
\* the name the signal gets, and whether it contains a forbidden character
SigName == IF args.name.given THEN args.name.str ELSE args.wave.name
SigNameForbidden ==
    \E i \in 1..Len(SigName) : SigName[i] \in {".", "_", ":", "-", "*", "+"}
SigAllZero ==
    \A i \in 1..Len(SignalY(args.wave)) : SignalY(args.wave)[i] = R(0)

\* C16: quantising a waveform whose sampled values are all zero completes
\* without a division by zero and gives an all-zeros upload buffer.
C16_ZeroWaveQuantizes ==
    (SigBuilt /\ SigAllZero) =>
        /\ acc.cls = "Signal"
        /\ \A i \in 1..Len(acc.data) : acc.data[i] = 0
        /\ pc = "uploaded" => \A i \in 1..Len(aux.values) : aux.values[i] = 0

\* C17: constructing a Signal whose name, given or taken from the waveform
\* (operator-made names like (a+b) included), contains one of . _ : - * +
\* fails with an error.
C17_ForbiddenNameFails ==
    (SigBuilt /\ SigNameForbidden) => acc.cls = "raised"

----------------------------------------------------------------------------
(* CarrierModOneshot.config: the commands written to the instrument.        *)
(* In this scenario aux is the instrument (the registers behind the         *)
(* commands), last is the sequence of commands written so far, args is the  *)
(* CarrierModOneshot object and pc the position inside config.              *)

Channels == {1, 2}

\* a command written with Siggen.write / write_binary_values; ch = 0 for a
\* command without a channel prefix
Cmd(ch, cmd, val) == [ch |-> ch, cmd |-> cmd, val |-> val]

\* the instrument executes a written command
InstrWrite(instr, c) ==
    CASE c.cmd = "OUTP" -> [instr EXCEPT !.outp[c.ch] = c.val]
      [] c.cmd = "CMBN" -> [instr EXCEPT !.cmbn[c.ch] = c.val]
      [] c.cmd = "COUP" -> [instr EXCEPT !.trduch = c.val[2]]
      [] c.cmd = "WVDT" -> [instr EXCEPT !.wvdt[c.ch] = "uploaded"]
      [] c.cmd = "BTWV" /\ c.val = "STATE,ON" -> [instr EXCEPT !.btwv[c.ch] = "ON"]
      [] OTHER -> instr

\* the values the instrument answers to 'cmd?'
InstrQuery(instr, ch, cmd) ==
    CASE cmd = "OUTP" -> <<instr.outp[ch], "LOAD", "HZ", "PLRT", "NOR">>
      [] cmd = "CMBN" -> <<instr.cmbn[ch]>>
      [] cmd = "COUP" -> <<"TRDUCH", instr.trduch>>

\* Siggen.write: sg is the instrument and the commands written so far
SgWrite(sg, c) == [instr |-> InstrWrite(sg.instr, c), log |-> Append(sg.log, c)]

RECURSIVE SgWriteAll(_, _, _)
SgWriteAll(sg, cs, i) ==
    IF i > Len(cs) THEN sg ELSE SgWriteAll(SgWrite(sg, cs[i]), cs, i + 1)

\* Siggen.switch
Switch(sg, ch, cmd, old, new) ==
    LET vals == InstrQuery(sg.instr, ch, cmd)
    IN  IF \E i \in 1..Len(vals) : vals[i] = old
        THEN SgWrite(sg, Cmd(ch, cmd, new))
        ELSE sg

\* Siggen.get_key_value
GetKeyValue(sg, ch, cmd, key) ==
    LET kv == InstrQuery(sg.instr, ch, cmd)
    IN  kv[(CHOOSE i \in 1..Len(kv) : kv[i] = key) + 1]

\* Siggen.set_key_value
SetKeyValue(sg, ch, cmd, key, val) ==
    IF GetKeyValue(sg, ch, cmd, key) # val
    THEN SgWrite(sg, Cmd(ch, cmd, <<key, val>>))
    ELSE sg

\* Siggen.enable
Enable(sg, channel) == Switch(sg, channel, "OUTP", "OFF", "ON")

\* a variant of Siggen.disable that writes nothing
DisableSkipped(sg, channel) == sg

\* Siggen.disable
Disable(sg, channel) == Switch(sg, channel, "OUTP", "ON", "OFF")

\* Siggen.combine
Combine(sg, channel) ==
    IF channel = 0
    THEN Switch(Switch(sg, 1, "CMBN", "ON", "OFF"), 2, "CMBN", "ON", "OFF")
    ELSE LET other == IF channel = 2 THEN 1 ELSE 2
         IN  Switch(Switch(sg, channel, "CMBN", "OFF", "ON"), other, "CMBN", "ON", "OFF")

\* Siggen.trigger_both
TriggerBoth(sg, enable) ==
    SetKeyValue(sg, 0, "COUP", "TRDUCH", IF enable THEN "ON" ELSE "OFF")

\* BurstOneshot.output_enable
OutputEnable(sg, burst, val) ==
    IF val THEN Enable(sg, burst.channel) ELSE Disable(sg, burst.channel)

\* BurstOneshot.config: the upload, the signal's configuration commands (a DDS
\* signal) and the burst setup
BurstConfig(sg, burst) ==
    SgWriteAll(sg,
        <<Cmd(burst.channel, "WVDT", "WVNM"),
          Cmd(burst.channel, "ARWV", "NAME"),
          Cmd(burst.channel, "SRATE", "MODE,DDS"),
          Cmd(burst.channel, "BSWV", "WVDT,ARB"),
          Cmd(burst.channel, "BTWV", "STATE,ON"),
          Cmd(burst.channel, "BTWV", "DLAY"),
          Cmd(burst.channel, "BTWV", "TIME"),
          Cmd(burst.channel, "BTWV", "TRSR,MAN"),
          Cmd(burst.channel, "BTWV", "EDGE,RISE"),
          Cmd(burst.channel, "BTWV", "STPS,0"),
          Cmd(burst.channel, "BTWV", "CARR,WVTP,ARB"),
          Cmd(burst.channel, "BTWV", "GATE_NCYC,NCYC")>>, 1)

OnOff == {"ON", "OFF"}

Instruments ==
    [ outp : [Channels -> OnOff], cmbn : [Channels -> OnOff], trduch : OnOff,
      wvdt : [Channels -> {"none"}], btwv : [Channels -> {"OFF"}] ]

\* the object: two BurstOneshot on their channels, and the combine argument
CfgArgs ==
    [ carrier : [channel : Channels], mod : [channel : Channels], combine : {0, 1, 2} ]

CfgInit ==
    /\ pc = "start"
    /\ args \in CfgArgs
    /\ aux \in Instruments
    /\ last = <<>>
    /\ qt = R(0)
    /\ qv = R(0)
    /\ arb = Unused /\ seq = Unused /\ acc = Unused /\ mod = Unused

\* the instrument and the commands written, as one value
Sg == [instr |-> aux, log |-> last]

\* self.carrier.output_enable (0)
CfgCarrierOff ==
    /\ pc = "start"
    /\ pc' = "carrier_off"
    /\ aux' = (OutputEnable(Sg, args.carrier, FALSE)).instr
    /\ last' = (OutputEnable(Sg, args.carrier, FALSE)).log
    /\ UNCHANGED <<arb, seq, acc, args, mod, qt, qv>>

\* self.mod.output_enable (0)
CfgModOff ==
    /\ pc = "carrier_off"
    /\ pc' = "mod_off"
    /\ aux' = (OutputEnable(Sg, args.mod, FALSE)).instr
    /\ last' = (OutputEnable(Sg, args.mod, FALSE)).log
    /\ UNCHANGED <<arb, seq, acc, args, mod, qt, qv>>

\* self.carrier.config ()
CfgCarrierBurst ==
    /\ pc = "mod_off"
    /\ pc' = "carrier_cfg"
    /\ aux' = (BurstConfig(Sg, args.carrier)).instr
    /\ last' = (BurstConfig(Sg, args.carrier)).log
    /\ UNCHANGED <<arb, seq, acc, args, mod, qt, qv>>

\* self.mod.config ()
CfgModBurst ==
    /\ pc = "carrier_cfg"
    /\ pc' = "mod_cfg"
    /\ aux' = (BurstConfig(Sg, args.mod)).instr
    /\ last' = (BurstConfig(Sg, args.mod)).log
    /\ UNCHANGED <<arb, seq, acc, args, mod, qt, qv>>

\* self.sg.trigger_both (True)
CfgTrigger ==
    /\ pc = "mod_cfg"
    /\ pc' = "coupled"
    /\ aux' = (TriggerBoth(Sg, TRUE)).instr
    /\ last' = (TriggerBoth(Sg, TRUE)).log
    /\ UNCHANGED <<arb, seq, acc, args, mod, qt, qv>>

\* self.sg.combine (self.combine) if self.combine, else self.sg.combine (0)
CfgCombine ==
    /\ pc = "coupled"
    /\ pc' = "combined"
    /\ aux' = (IF args.combine # 0 THEN Combine(Sg, args.combine) ELSE Combine(Sg, 0)).instr
    /\ last' = (IF args.combine # 0 THEN Combine(Sg, args.combine) ELSE Combine(Sg, 0)).log
    /\ UNCHANGED <<arb, seq, acc, args, mod, qt, qv>>

\* self.carrier.output_enable (True)
CfgCarrierOn ==
    /\ pc = "combined"
    /\ pc' = "carrier_on"
    /\ aux' = (OutputEnable(Sg, args.carrier, TRUE)).instr
    /\ last' = (OutputEnable(Sg, args.carrier, TRUE)).log
    /\ UNCHANGED <<arb, seq, acc, args, mod, qt, qv>>

\* self.mod.output_enable (True)
CfgModOn ==
    /\ pc = "carrier_on"
    /\ pc' = "done"
    /\ aux' = (OutputEnable(Sg, args.mod, TRUE)).instr
    /\ last' = (OutputEnable(Sg, args.mod, TRUE)).log
    /\ UNCHANGED <<arb, seq, acc, args, mod, qt, qv>>

CfgNext ==
    \/ CfgCarrierOff \/ CfgModOff \/ CfgCarrierBurst \/ CfgModBurst
    \/ CfgTrigger \/ CfgCombine \/ CfgCarrierOn \/ CfgModOn

SpecCfg == CfgInit /\ [][CfgNext]_vars

\* the stage of config a written command belongs to: outputs off, upload and
\* burst configuration, trigger coupling, combine, outputs on
CfgPhase(c) ==
    CASE c.cmd = "OUTP" /\ c.val = "OFF" -> 1
      [] c.cmd \in {"WVDT", "ARWV", "SRATE", "BSWV", "BTWV"} -> 2
      [] c.cmd = "COUP" -> 3
      [] c.cmd = "CMBN" -> 4
      [] c.cmd = "OUTP" /\ c.val = "ON" -> 5
\* the outputs of the carrier's and of the modulation's channel
CfgOutputsAre(v) ==
    /\ aux.outp[args.carrier.channel] = v
    /\ aux.outp[args.mod.channel] = v
CfgWritten(c) == \E i \in 1..Len(last) : last[i] = c

\* the commands written so far are in the order of the stages; between the
\* switching off and the switching on the outputs are off; when config has
\* returned both bursts are uploaded and configured, the trigger coupling and
\* the combine are as asked and both outputs are on
CfgStateOk ==
    /\ \A i, j \in 1..Len(last) : i < j => CfgPhase(last[i]) <= CfgPhase(last[j])
    /\ pc \in {"mod_off", "carrier_cfg", "mod_cfg", "coupled", "combined"} =>
            CfgOutputsAre("OFF")
    /\ pc = "done" =>
            /\ CfgOutputsAre("ON")
            /\ \A b \in {args.carrier, args.mod} :
                  /\ CfgWritten(Cmd(b.channel, "WVDT", "WVNM"))
                  /\ CfgWritten(Cmd(b.channel, "BTWV", "STATE,ON"))
            /\ aux.trduch = "ON"
            /\ \A ch \in Channels :
                  aux.cmbn[ch] = IF ch = args.combine THEN "ON" ELSE "OFF"

\* a step that writes an upload or burst configuration command starts with
\* both outputs off
CfgStepOk ==
    \A i \in 1..Len(last') :
        (i > Len(last) /\ CfgPhase(last'[i]) = 2) => CfgOutputsAre("OFF")

\* C19: from any instrument state config writes its commands in this order:
\* outputs off, then upload and configuration of the carrier burst and of the
\* modulation burst, then trigger coupling, then combine, then outputs on; no
\* upload or burst configuration command is written while the output of the
\* carrier's or of the modulation's channel is on, and when config has returned
\* both outputs are on.
C19_ConfigOrder == [](CfgStateOk) /\ [][CfgStepOk]_vars

\* config has returned after switching both outputs off and on again, setting
\* the coupling and moving the combine from channel 1 to channel 2
C19_Witness ==
    /\ pc = "done" /\ args.carrier.channel = 1 /\ args.mod.channel = 2
    /\ args.combine = 2 /\ Len(last) = 31
    /\ last[1] = Cmd(1, "OUTP", "OFF") /\ last[2] = Cmd(2, "OUTP", "OFF")
    /\ last[3] = Cmd(1, "WVDT", "WVNM") /\ last[31] = Cmd(2, "OUTP", "ON")
    /\ CfgOutputsAre("ON")

====
